---- MODULE Spec2Model ----
(***************************************************************************)
(* Storefront client: the shopping-cart store as used by the cart panel    *)
(* and the product grid, the order pages (unified orders, pending payments, *)
(* my orders) with their loads, cancellations and payment retries, the     *)
(* countdown of a pending order and the shipping estimate of an order.     *)
(***************************************************************************)
EXTENDS Integers, Sequences, FiniteSets, TLC

VARIABLES
    \* ---- cart store + cart panel ----
    catalog,          \* product id -> product record handed to addItem
    items,            \* cartStore.items: sequence of cart lines
    total,            \* cartStore.total
    isOpen,           \* cartStore.isOpen
    prevItems,        \* history: cartStore.items before the last operation
    lastOp,           \* history: the last operation and its arguments
    \* ---- unified orders page ----
    user,             \* useAuthStore().user
    db,               \* the backend's rows of table orders for the user, created_at descending
    completedOrders,  \* useState completedOrders
    pendingOrders,    \* useState pendingOrders
    loading,          \* useState loading
    error,            \* useState error
    inflight,         \* number of loadOrders calls awaiting the backend
    mounted,          \* whether the mount effect has run
    loaded,           \* history: the rows classified by the last successful load
    \* ---- the page that is mounted, and what the order pages and the grid add ----
    page,             \* which component is mounted
    orders,           \* MyOrdersPage: useState orders
    products,         \* ProductGrid: useState products
    searchInput,      \* ProductGrid: useState searchInput
    searchTerm,       \* ProductGrid: useDebounce(searchInput, 300)
    selectedCategory, \* ProductGrid: useState selectedCategory
    sortBy,           \* ProductGrid: useState sortBy
    categories,       \* ProductGrid: useState categories
    gridLoads,        \* ProductGrid: the loadProducts calls awaiting the backend
    processingOrder,  \* useState processingOrder (PendingPaymentsPage: retryingPayment)
    requests,         \* cancelOrder / retryPayment calls awaiting the backend
    timers,           \* pending setTimeout(loadOrders, 2000) callbacks
    started,          \* number of cancellations, retries and filter changes begun
    toast,            \* the notification shown by the last step
    lastEvent,        \* history: what the last step of the page was
    sentLog,          \* history: every write and function call sent to the backend
    \* ---- countdown of a payment-pending order (getTimeRemaining) ----
    createdAt,        \* order.created_at, in ms since the epoch
    now,              \* the wall clock, in ms since the epoch
    timeText,         \* what getTimeRemaining returned at the last render
    \* ---- shipping estimate of an order (MyOrdersPage) ----
    orderItems,       \* order.order_items: each item's products record
    estimatedDays     \* what getOrderEstimatedDays returned at the last render

cartVars   == <<catalog, items, total, isOpen, prevItems, lastOp>>
ordersVars == <<user, db, completedOrders, pendingOrders, loading, error,
                inflight, mounted, loaded>>
pageVars   == <<page, orders, products, searchInput, searchTerm,
                selectedCategory, sortBy, categories, gridLoads,
                processingOrder, requests, timers, started, toast, lastEvent,
                sentLog>>
timeVars   == <<createdAt, now, timeText>>
shipVars   == <<orderItems, estimatedDays>>
vars       == <<cartVars, ordersVars, pageVars, timeVars, shipVars>>

\* what an action of one component leaves alone
nonCartVars   == <<ordersVars, pageVars, timeVars, shipVars>>
nonOrdersVars == <<cartVars, timeVars, shipVars>>
\* what a load of an order page leaves alone besides the page's own state
\* (every step of a page sets toast and lastEvent)
filterVars    == <<searchInput, searchTerm, selectedCategory, sortBy>>
gridVars      == <<products, categories, filterVars, gridLoads>>
opVars        == <<processingOrder, requests, timers, sentLog>>
workVars      == <<page, orders, gridVars, opVars, started>>
nonTimeVars   == <<cartVars, ordersVars, pageVars, shipVars>>
nonShipVars   == <<cartVars, ordersVars, pageVars, timeVars>>

\* ------------------------------------------------------------------ bounds
\* at most this many units (sum of quantities) are put in the cart
MaxUnits == 3
\* at most this many orders in the backend table
MaxOrders == 2
\* the countdown is rendered up to this many hours (and 59 minutes) after creation
MaxHours == 49
\* at most this many items in the order whose shipping estimate is shown
MaxItems == 2
\* at most this many cancellations, payment retries and filter changes are begun
MaxOps == 2

\* ------------------------------------------------------------ cart: data
NoColor == "undefined"
NoPromotion == [type |-> "none", total_price |-> 0]
NoOp == [op |-> "init", id |-> "-", color |-> NoColor, n |-> 0, line |-> 0]

ProductIds == {"p1", "p2", "p3"}
PromotionTypes == {"2x1", "3x1", "3x2", "discount"}

\* colours a product can be added with (NoColor: added from the product grid)
ColorsOf(id) == IF id = "p1" THEN {NoColor, "red", "blue"} ELSE {NoColor}

\* the products the backend can hand to the client
Catalogs ==
    { [id \in ProductIds |->
         IF id = "p1" THEN [id |-> id, price |-> 100,
                            promotion |-> [type |-> "discount", total_price |-> 70]]
         ELSE IF id = "p2" THEN [id |-> id, price |-> 50,
                                 promotion |-> [type |-> t, total_price |-> 40]]
         ELSE [id |-> id, price |-> 30, promotion |-> NoPromotion]]
      : t \in PromotionTypes \ {"discount"} }

RECURSIVE TotalQty(_)
TotalQty(its) ==
    IF its = <<>> THEN 0 ELSE Head(its).quantity + TotalQty(Tail(its))

RemoveAt(s, i) == SubSeq(s, 1, i - 1) \o SubSeq(s, i + 1, Len(s))

Min(S) == CHOOSE x \in S : \A y \in S : x <= y

\* --------------------------------------------------- cart store operations
\* index of the line with key (product id, selectedColor), 0 when there is none
LineIndex(its, id, color) ==
    LET S == { i \in 1..Len(its) :
                   its[i].product.id = id /\ its[i].selectedColor = color }
    IN IF S = {} THEN 0 ELSE Min(S)

\* index of the first line of the product, 0 when there is none
FirstMatch(its, id) ==
    LET S == { i \in 1..Len(its) : its[i].product.id = id }
    IN IF S = {} THEN 0 ELSE Min(S)

addItem_Append(its, product, quantity, color) ==
    Append(its, [product |-> product, quantity |-> quantity, selectedColor |-> color])

addItem(its, product, quantity, color) ==
    LET i == LineIndex(its, product.id, color)
    IN IF i # 0
       THEN [its EXCEPT ![i].quantity = @ + quantity]
       ELSE Append(its, [product |-> product, quantity |-> quantity,
                         selectedColor |-> color])

updateQuantity(its, id, n) ==
    LET i == FirstMatch(its, id)
    IN IF i = 0 THEN its
       ELSE IF n <= 0 THEN RemoveAt(its, i)
       ELSE [its EXCEPT ![i].quantity = n]

removeItem(its, id) == SelectSeq(its, LAMBDA it : it.product.id # id)

unitPrice(product) ==
    IF product.promotion.type = "discount"
    THEN product.promotion.total_price
    ELSE product.price

RECURSIVE calcTotal(_)
calcTotal(its) ==
    IF its = <<>> THEN 0
    ELSE unitPrice(Head(its).product) * Head(its).quantity + calcTotal(Tail(its))

\* ------------------------------------------------------ cart panel (Cart.tsx)
\* the amount the panel shows for a line
LineAmount_AnyPromotion(item) ==
    IF item.product.promotion.type # "none"
    THEN item.product.promotion.total_price * item.quantity
    ELSE item.product.price * item.quantity

LineAmount(item) ==
    IF item.product.promotion.type = "discount"
    THEN item.product.promotion.total_price * item.quantity
    ELSE item.product.price * item.quantity

LineKey_IdOnly(item) == <<item.product.id>>

\* the key React gives a line
LineKey(item) == <<item.product.id, item.selectedColor>>

OnMinus(its, i) == updateQuantity(its, its[i].product.id, its[i].quantity - 1)

OnPlus_ThisLine(its, i) == [its EXCEPT ![i].quantity = @ + 1]

OnPlus(its, i) == updateQuantity(its, its[i].product.id, its[i].quantity + 1)

OnEliminar_ThisLine(its, i) == RemoveAt(its, i)

OnEliminar(its, i) == removeItem(its, its[i].product.id)

\* ------------------------------------------------- product grid (add to cart)
handleAddToCart_NewLine(its, product) == addItem_Append(its, product, 1, NoColor)

handleAddToCart_Zero(its, product) == addItem(its, product, 0, NoColor)

handleAddToCart(its, product) == addItem(its, product, 1, NoColor)

\* ------------------------------------------------------------ cart actions
Op(op, id, color, n, line) ==
    [op |-> op, id |-> id, color |-> color, n |-> n, line |-> line]

CartStep(newItems, op) ==
    /\ TotalQty(newItems) <= MaxUnits
    /\ items' = newItems
    /\ total' = calcTotal(newItems)
    /\ prevItems' = items
    /\ lastOp' = op
    /\ UNCHANGED <<catalog, isOpen, nonCartVars>>

AddItem ==
    \E id \in ProductIds, q \in 1..2 : \E color \in ColorsOf(id) :
        CartStep(addItem(items, catalog[id], q, color), Op("addItem", id, color, q, 0))

HandleAddToCart ==
    \E id \in ProductIds :
        CartStep(handleAddToCart(items, catalog[id]),
                 Op("handleAddToCart", id, NoColor, 1, 0))

UpdateQuantity ==
    \E id \in ProductIds, n \in -1..MaxUnits :
        CartStep(updateQuantity(items, id, n), Op("updateQuantity", id, NoColor, n, 0))

RemoveItem ==
    \E id \in ProductIds :
        CartStep(removeItem(items, id), Op("removeItem", id, NoColor, 0, 0))

PressMinus ==
    /\ isOpen
    /\ \E i \in 1..Len(items) :
        CartStep(OnMinus(items, i),
                 Op("minus", items[i].product.id, items[i].selectedColor,
                    items[i].quantity - 1, i))

PressPlus ==
    /\ isOpen
    /\ \E i \in 1..Len(items) :
        CartStep(OnPlus(items, i),
                 Op("plus", items[i].product.id, items[i].selectedColor,
                    items[i].quantity + 1, i))

PressEliminar ==
    /\ isOpen
    /\ \E i \in 1..Len(items) :
        CartStep(OnEliminar(items, i),
                 Op("eliminar", items[i].product.id, items[i].selectedColor, 0, i))

ToggleCart ==
    /\ isOpen' = ~isOpen
    /\ prevItems' = items
    /\ lastOp' = Op("toggleCart", "-", NoColor, 0, 0)
    /\ UNCHANGED <<catalog, items, total, nonCartVars>>

\* ------------------------------------------------------- orders page: data
NoUser == "null"
NoError == "null"
LoadErrorMessage == "Error al cargar los pedidos"

PaymentStatuses == {"paid", "pending", "failed", "payment_pending"}
PaymentMethods == {"mercadopago", "cash_on_delivery"}
OrderStatuses == {"pending", "processing", "shipped", "delivered", "cancelled"}

OrderRows == [payment_status : PaymentStatuses,
              payment_method : PaymentMethods,
              status : OrderStatuses]

\* ------------------------------------------- orders page: the classifier
isCompleted_DropsLegacy(order) ==
    ~(order.payment_method = "mercadopago" /\ order.payment_status = "pending")

isCompleted_AnyPending(order) ==
    /\ order.payment_status # "payment_pending"
    /\ order.payment_status # "pending"

isCompleted(order) ==
    /\ order.payment_status # "payment_pending"
    /\ ~(order.payment_method = "mercadopago" /\ order.payment_status = "pending")

isPending(order) ==
    \/ order.payment_status = "payment_pending"
    \/ (order.payment_method = "mercadopago" /\ order.payment_status = "pending")

completedOf_Reversed(data) ==
    [i \in 1..Len(SelectSeq(data, isCompleted)) |->
        SelectSeq(data, isCompleted)[Len(SelectSeq(data, isCompleted)) + 1 - i]]

\* const completed = orders.filter(...)
completedOf(data) == SelectSeq(data, isCompleted)

\* const pending = orders.filter(...)
pendingOf(data) == SelectSeq(data, isPending)

\* ------------------------------------------------ orders page: the backend
\* the checkout flow creates an order: it is the newest row, so the first of
\* the rows in created_at-descending order; ids are given in creation order
CreateOrderOf(Rows) ==
    /\ ~mounted
    /\ Len(db) < MaxOrders
    /\ \E row \in Rows :
           db' = <<[id |-> Len(db) + 1,
                    payment_status |-> row.payment_status,
                    payment_method |-> row.payment_method,
                    status |-> row.status,
                    payment_url |-> "null",
                    updated_at |-> "created"]>> \o db
    /\ UNCHANGED <<user, completedOrders, pendingOrders, loading, error,
                   inflight, mounted, loaded, pageVars, nonOrdersVars>>

CreateOrder == CreateOrderOf(OrderRows)

\* ------------------------------------------------ pages: events and toasts
Pages == {"UnifiedOrdersPage", "PendingPaymentsPage", "MyOrdersPage", "ProductGrid"}
OrderPages == {"UnifiedOrdersPage", "PendingPaymentsPage", "MyOrdersPage"}

NoToast == [level |-> "none", text |-> ""]
ToastError(text) == [level |-> "error", text |-> text]
ToastSuccess(text) == [level |-> "success", text |-> text]

NoOrder == 0
NoEvent == [ev |-> "init", id |-> NoOrder, outcome |-> "-"]
Ev(ev, id) == [ev |-> ev, id |-> id, outcome |-> "-"]
\* a step that handles an answer of create-payment
EvOf(ev, id, outcome) == [ev |-> ev, id |-> id, outcome |-> outcome]

\* what the step showed and what it was
Notify(ev, id, t) ==
    /\ lastEvent' = Ev(ev, id)
    /\ toast' = t

\* ------------------------------------------------ orders page: loadOrders
\* loadOrders up to its await (the same in the three order pages)
LoadOrdersStart ==
    IF user = NoUser
    THEN UNCHANGED <<loading, error, inflight>>
    ELSE /\ loading' = TRUE
         /\ error' = NoError
         /\ inflight' = inflight + 1

\* the mount effect of an order page
Mount ==
    /\ page \in OrderPages
    /\ ~mounted
    /\ mounted' = TRUE
    /\ LoadOrdersStart
    /\ Notify("mount", NoOrder, NoToast)
    /\ UNCHANGED <<user, db, completedOrders, pendingOrders, loaded, workVars,
                   nonOrdersVars>>

\* the retry button of the error view
PressRetry ==
    /\ page = "UnifiedOrdersPage"
    /\ mounted
    /\ ~loading
    /\ error # NoError
    /\ LoadOrdersStart
    /\ Notify("loadStarted", NoOrder, NoToast)
    /\ UNCHANGED <<user, db, mounted, completedOrders, pendingOrders, loaded,
                   workVars, nonOrdersVars>>

\* the rest of loadOrders once the backend has answered with `data`
LoadSettle(data) ==
    /\ page = "UnifiedOrdersPage"
    /\ inflight > 0
    /\ inflight' = inflight - 1
    /\ completedOrders' = completedOf(data)
    /\ pendingOrders' = pendingOf(data)
    /\ loaded' = data
    /\ loading' = FALSE
    /\ Notify("loadOk", NoOrder, NoToast)
    /\ UNCHANGED <<user, db, mounted, error, workVars, nonOrdersVars>>

LoadOk == LoadSettle(db)

\* data is null and there is no error: orders = data || []
LoadNull == LoadSettle(<<>>)

LoadFail_ClearsBuckets ==
    /\ page = "UnifiedOrdersPage"
    /\ inflight > 0
    /\ inflight' = inflight - 1
    /\ error' = LoadErrorMessage
    /\ loading' = FALSE
    /\ completedOrders' = <<>>
    /\ pendingOrders' = <<>>
    /\ Notify("loadFailed", NoOrder, NoToast)
    /\ UNCHANGED <<user, db, mounted, loaded, workVars, nonOrdersVars>>

LoadFail ==
    /\ page = "UnifiedOrdersPage"
    /\ inflight > 0
    /\ inflight' = inflight - 1
    /\ error' = LoadErrorMessage
    /\ loading' = FALSE
    /\ Notify("loadFailed", NoOrder, NoToast)
    /\ UNCHANGED <<user, db, mounted, completedOrders, pendingOrders, loaded,
                   workVars, nonOrdersVars>>

\* the backend answers with fetchError
LoadFetchError == LoadFail

\* the await throws; the catch block runs
LoadThrow == LoadFail

\* ------------------------------------- pending payments page: the load
PendingLoadErrorMessage == "Error al cargar los pedidos pendientes"

\* the filter of the page's query: .eq('payment_method', 'mercadopago')
\* .eq('payment_status', 'pending')
isMercadoPagoPending(order) ==
    /\ order.payment_method = "mercadopago"
    /\ order.payment_status = "pending"

\* the rest of loadPendingOrders on an answer without error:
\* setPendingOrders(data || [])
LoadPendingOk ==
    /\ page = "PendingPaymentsPage"
    /\ inflight > 0
    /\ inflight' = inflight - 1
    /\ \E data \in {SelectSeq(db, isMercadoPagoPending), <<>>} :
           pendingOrders' = data
    /\ loading' = FALSE
    /\ Notify("loadOk", NoOrder, NoToast)
    /\ UNCHANGED <<user, db, mounted, error, completedOrders, loaded, workVars,
                   nonOrdersVars>>

\* fetchError is thrown, or the await throws: the catch block
LoadPendingFail ==
    /\ page = "PendingPaymentsPage"
    /\ inflight > 0
    /\ inflight' = inflight - 1
    /\ error' = PendingLoadErrorMessage
    /\ loading' = FALSE
    /\ Notify("loadFailed", NoOrder, ToastError(PendingLoadErrorMessage))
    /\ UNCHANGED <<user, db, mounted, completedOrders, pendingOrders, loaded,
                   workVars, nonOrdersVars>>

\* the button "Actualizar Lista", rendered whenever the page is not loading
PressRefresh ==
    /\ page = "PendingPaymentsPage"
    /\ mounted
    /\ ~loading
    /\ LoadOrdersStart
    /\ Notify("loadStarted", NoOrder, NoToast)
    /\ UNCHANGED <<user, db, mounted, completedOrders, pendingOrders, loaded,
                   workVars, nonOrdersVars>>

\* --------------------------------------------- my orders page: the load
\* the rest of loadOrders on an answer without error: setOrders(data || [])
LoadMyOrdersOk ==
    /\ page = "MyOrdersPage"
    /\ inflight > 0
    /\ inflight' = inflight - 1
    /\ \E data \in {db, <<>>} : orders' = data
    /\ loading' = FALSE
    /\ Notify("loadOk", NoOrder, NoToast)
    /\ UNCHANGED <<user, db, mounted, error, completedOrders, pendingOrders,
                   loaded, page, gridVars, opVars, started, nonOrdersVars>>

\* fetchError is thrown, or the await throws: the catch block
LoadMyOrdersFail ==
    /\ page = "MyOrdersPage"
    /\ inflight > 0
    /\ inflight' = inflight - 1
    /\ error' = LoadErrorMessage
    /\ loading' = FALSE
    /\ Notify("loadFailed", NoOrder, ToastError(LoadErrorMessage))
    /\ UNCHANGED <<user, db, mounted, completedOrders, pendingOrders, loaded,
                   workVars, nonOrdersVars>>

\* ------------------------------------------------ product grid: the load
ProductsLoadErrorMessage == "Error al cargar los productos"

\* the backend's products; the last one allows no payment method
ProductsTable ==
    <<[id |-> "p1", name |-> <<"A", "b">>, description |-> <<>>,
       category |-> "c1", price |-> 100, created_at |-> 3,
       cash_on_delivery |-> TRUE, card |-> TRUE],
      [id |-> "p2", name |-> <<"c">>, description |-> <<"a", "B">>,
       category |-> "c2", price |-> 50, created_at |-> 2,
       cash_on_delivery |-> TRUE, card |-> FALSE],
      [id |-> "p3", name |-> <<"b">>, description |-> <<>>,
       category |-> "c1", price |-> 30, created_at |-> 1,
       cash_on_delivery |-> FALSE, card |-> FALSE]>>

\* what the user types in the search box
SearchInputs == {<<>>, <<"b">>, <<"c">>}
SortOrders == {"newest", "price_asc", "price_desc"}

Lower(c) == CASE c = "A" -> "a" [] c = "B" -> "b" [] c = "C" -> "c" [] OTHER -> c

LowerAll(text) == [i \in 1..Len(text) |-> Lower(text[i])]

\* column.ilike.%term%
ilike(text, term) ==
    \E i \in 1..(Len(text) - Len(term) + 1) :
        SubSeq(LowerAll(text), i, i + Len(term) - 1) = LowerAll(term)

\* query.order('price', ...) / query.order('created_at', { ascending: false })
ordered(rows, sort) ==
    LET Before(a, b) == CASE sort = "price_asc" -> a.price < b.price
                          [] sort = "price_desc" -> a.price > b.price
                          [] OTHER -> a.created_at > b.created_at
        Rank(r) == Cardinality({ j \in 1..Len(rows) : Before(rows[j], r) })
    IN  [i \in 1..Len(rows) |->
            rows[CHOOSE j \in 1..Len(rows) : Rank(rows[j]) = i - 1]]

\* the filter a loadProducts call closes over
Params(term, category, sort) ==
    [searchTerm |-> term, selectedCategory |-> category, sortBy |-> sort]

CurrentParams == Params(searchTerm, selectedCategory, sortBy)

\* the query built from the filter: the search clause when searchTerm is not
\* empty, the category clause when one is selected, then the order
productsQuery(params) ==
    ordered(SelectSeq(ProductsTable,
                LAMBDA product :
                    /\ (params.searchTerm # <<>>)
                           => \/ ilike(product.name, params.searchTerm)
                              \/ ilike(product.description, params.searchTerm)
                    /\ (params.selectedCategory # "")
                           => product.category = params.selectedCategory),
            params.sortBy)

\* data.filter(methods.cash_on_delivery || methods.card)
allowsPayment(product) == product.cash_on_delivery \/ product.card

\* a field the spread did not add
Undefined == "undefined"

\* promotion_products with an active promotion: product id -> promotion
PromotionProducts == [p1 |-> "promo1"]

\* the approved reviews' ratings: product id -> ratings
Reviews == [p2 |-> <<4, 2>>, p3 |-> <<5>>]

RECURSIVE SumOf(_)
SumOf(ratings) == IF ratings = <<>> THEN 0 ELSE Head(ratings) + SumOf(Tail(ratings))

\* the product with the promotion found for it, if the promotions were loaded
withPromotion(product, promotionsOk) ==
    IF promotionsOk /\ product.id \in DOMAIN PromotionProducts
    THEN PromotionProducts[product.id]
    ELSE Undefined

\* averageRating and reviewCount, if the reviews were loaded
withRating(product, reviewsOk) ==
    IF ~reviewsOk THEN [averageRating |-> Undefined, reviewCount |-> Undefined]
    ELSE IF product.id \in DOMAIN Reviews
    THEN [averageRating |-> SumOf(Reviews[product.id]) \div Len(Reviews[product.id]),
          reviewCount |-> Len(Reviews[product.id])]
    ELSE [averageRating |-> 0, reviewCount |-> 0]

productsWithData_NoneOnFailure(data, promotionsOk, reviewsOk) ==
    IF ~(promotionsOk /\ reviewsOk) THEN <<>>
    ELSE [i \in 1..Len(SelectSeq(data, allowsPayment)) |->
            [id |-> SelectSeq(data, allowsPayment)[i].id,
             promotion |-> withPromotion(SelectSeq(data, allowsPayment)[i], TRUE),
             averageRating |-> withRating(SelectSeq(data, allowsPayment)[i], TRUE).averageRating,
             reviewCount |-> withRating(SelectSeq(data, allowsPayment)[i], TRUE).reviewCount]]

\* the products with what the promotions and reviews queries added
productsWithData(data, promotionsOk, reviewsOk) ==
    [i \in 1..Len(SelectSeq(data, allowsPayment)) |->
        [id |-> SelectSeq(data, allowsPayment)[i].id,
         promotion |-> withPromotion(SelectSeq(data, allowsPayment)[i], promotionsOk),
         averageRating |->
             withRating(SelectSeq(data, allowsPayment)[i], reviewsOk).averageRating,
         reviewCount |->
             withRating(SelectSeq(data, allowsPayment)[i], reviewsOk).reviewCount]]

\* history: what the promotions and the reviews queries did in a load
LoadOutcome(promotionsOk, reviewsOk) ==
    IF promotionsOk
    THEN IF reviewsOk THEN "loaded" ELSE "reviews failed"
    ELSE IF reviewsOk THEN "promotions failed" ELSE "promotions and reviews failed"

\* Array.from(new Set(data.map(p => p.category).filter(Boolean)))
uniqueCategories(data) == { data[i].category : i \in 1..Len(data) } \ {""}

\* loadProducts up to its first await, with the filter it closes over
LoadProductsStart(params) ==
    /\ loading' = TRUE
    /\ error' = NoError
    /\ gridLoads' = Append(gridLoads, params)

\* the filter controls are rendered with the product list
FiltersShown ==
    /\ page = "ProductGrid"
    /\ mounted
    /\ ~loading
    /\ error = NoError

\* the effect on mount
MountGrid ==
    /\ page = "ProductGrid"
    /\ ~mounted
    /\ mounted' = TRUE
    /\ LoadProductsStart(CurrentParams)
    /\ Notify("mount", NoOrder, NoToast)
    /\ UNCHANGED <<user, db, completedOrders, pendingOrders, inflight, loaded,
                   page, orders, products, categories, filterVars, opVars,
                   started, nonOrdersVars>>

\* the search box: setSearchInput; searchTerm follows after the debounce
TypeSearch ==
    /\ FiltersShown
    /\ started < MaxOps
    /\ started' = started + 1
    /\ \E text \in SearchInputs \ {searchInput} : searchInput' = text
    /\ Notify("typed", NoOrder, NoToast)
    /\ UNCHANGED <<ordersVars, page, orders, products, categories, searchTerm,
                   selectedCategory, sortBy, gridLoads, opVars, nonOrdersVars>>

\* the debounce delay has passed: searchTerm changes and the effect on
\* [searchTerm, selectedCategory, sortBy] runs loadProducts
DebounceFires ==
    /\ page = "ProductGrid"
    /\ mounted
    /\ searchTerm # searchInput
    /\ searchTerm' = searchInput
    /\ LoadProductsStart(Params(searchInput, selectedCategory, sortBy))
    /\ Notify("loadStarted", NoOrder, NoToast)
    /\ UNCHANGED <<user, db, completedOrders, pendingOrders, inflight, mounted,
                   loaded, page, orders, products, categories, searchInput,
                   selectedCategory, sortBy, opVars, started, nonOrdersVars>>

\* the category select, whose options are the loaded categories; the effect
\* runs loadProducts
SelectCategory ==
    /\ FiltersShown
    /\ started < MaxOps
    /\ started' = started + 1
    /\ \E category \in (categories \cup {""}) \ {selectedCategory} :
           /\ selectedCategory' = category
           /\ LoadProductsStart(Params(searchTerm, category, sortBy))
    /\ Notify("loadStarted", NoOrder, NoToast)
    /\ UNCHANGED <<user, db, completedOrders, pendingOrders, inflight, mounted,
                   loaded, page, orders, products, categories, searchInput,
                   searchTerm, sortBy, opVars, nonOrdersVars>>

\* the sort select; the effect runs loadProducts
SelectSort ==
    /\ FiltersShown
    /\ started < MaxOps
    /\ started' = started + 1
    /\ \E sort \in SortOrders \ {sortBy} :
           /\ sortBy' = sort
           /\ LoadProductsStart(Params(searchTerm, selectedCategory, sort))
    /\ Notify("loadStarted", NoOrder, NoToast)
    /\ UNCHANGED <<user, db, completedOrders, pendingOrders, inflight, mounted,
                   loaded, page, orders, products, categories, searchInput,
                   searchTerm, selectedCategory, opVars, nonOrdersVars>>

\* the button "Reintentar" of the error view; loadProducts reads the current
\* filter
PressReintentar ==
    /\ page = "ProductGrid"
    /\ mounted
    /\ ~loading
    /\ error # NoError
    /\ LoadProductsStart(CurrentParams)
    /\ Notify("loadStarted", NoOrder, NoToast)
    /\ UNCHANGED <<user, db, completedOrders, pendingOrders, inflight, mounted,
                   loaded, page, orders, products, categories, filterVars,
                   opVars, started, nonOrdersVars>>

\* the main query answers with rows; the promotions and the reviews queries
\* each succeed or fail; setProducts(productsWithData), setCategories
LoadProductsOk ==
    /\ page = "ProductGrid"
    /\ \E i \in 1..Len(gridLoads), promotionsOk \in BOOLEAN, reviewsOk \in BOOLEAN :
           /\ gridLoads' = RemoveAt(gridLoads, i)
           /\ products' = productsWithData(productsQuery(gridLoads[i]),
                                           promotionsOk, reviewsOk)
           /\ categories' = uniqueCategories(productsQuery(gridLoads[i]))
           /\ lastEvent' = EvOf("loadOk", NoOrder, LoadOutcome(promotionsOk, reviewsOk))
    /\ toast' = NoToast
    /\ loading' = FALSE
    /\ UNCHANGED <<user, db, completedOrders, pendingOrders, error, inflight,
                   mounted, loaded, page, orders, filterVars, opVars, started,
                   nonOrdersVars>>

\* fetchError, no data, or the await throws: the catch block
LoadProductsFail ==
    /\ page = "ProductGrid"
    /\ \E i \in 1..Len(gridLoads) : gridLoads' = RemoveAt(gridLoads, i)
    /\ error' = ProductsLoadErrorMessage
    /\ loading' = FALSE
    /\ Notify("loadFailed", NoOrder, ToastError(ProductsLoadErrorMessage))
    /\ UNCHANGED <<user, db, completedOrders, pendingOrders, inflight, mounted,
                   loaded, page, orders, products, categories, filterVars,
                   opVars, started, nonOrdersVars>>

\* ------------------------------- order pages: cancelOrder and retryPayment
CancelPages == {"UnifiedOrdersPage", "PendingPaymentsPage"}

InitPoint == "init_point"
CancelStamp == "new Date().toISOString()"

RetryErrorText(p) ==
    IF p = "PendingPaymentsPage" THEN "Error al reintentar el pago"
                                 ELSE "Error al procesar el pago"

\* the pending orders and their buttons are on screen: both pages show a
\* placeholder while loading, the unified page shows only the error view
\* when error is set, the pending payments page shows the error above the list
ListShown ==
    /\ page \in CancelPages
    /\ mounted
    /\ ~loading
    /\ (page = "UnifiedOrdersPage" => error = NoError)

Row(id) == db[CHOOSE j \in 1..Len(db) : db[j].id = id]

\* the object passed to .update() by cancelOrder
CancelPayload(p) ==
    IF p = "PendingPaymentsPage"
    THEN [status |-> "cancelled", payment_status |-> "failed",
          updated_at |-> CancelStamp]
    ELSE [status |-> "cancelled"]

RetryPayload_WithTotal(p) == [payment_url |-> InitPoint, total |-> 0]

\* the object passed to .update() by retryPayment
RetryPayload(p) ==
    IF p = "PendingPaymentsPage"
    THEN [payment_url |-> InitPoint]
    ELSE [payment_url |-> InitPoint, payment_status |-> "pending"]

\* .update(payload).eq('id', id) as the backend applies it
Apply(rows, id, payload) ==
    [j \in 1..Len(rows) |->
        IF rows[j].id = id
        THEN [f \in DOMAIN rows[j] |->
                 IF f \in DOMAIN payload THEN payload[f] ELSE rows[j][f]]
        ELSE rows[j]]

\* history entries: an update sent, a create-payment call sent; `cancelled`
\* tells whether the order's row was cancelled when the call was sent and
\* `dialog` what the user answered to the confirmation that preceded it
Write(op, id, payload, dialog) ==
    [kind |-> "update", op |-> op, id |-> id, set |-> payload,
     cancelled |-> (Row(id).status = "cancelled"), dialog |-> dialog]

Invoke(id) ==
    [kind |-> "create-payment", op |-> "retryPayment", id |-> id, set |-> <<>>,
     cancelled |-> (Row(id).status = "cancelled"), dialog |-> "none"]

proceeds_Always(accepted) == TRUE

\* if (!confirm(...)) return   /   if (confirm(...)) cancelOrder(order.id)
proceeds(accepted) == accepted

\* the cancel button of a pending order, and the confirmation dialog
PressCancelar ==
    /\ ListShown
    /\ started < MaxOps
    /\ \E j \in 1..Len(pendingOrders), accepted \in BOOLEAN :
        LET id == pendingOrders[j].id
            dialog == IF accepted THEN "accepted" ELSE "declined"
        IN  IF proceeds(accepted)
            THEN /\ requests' = Append(requests, [op |-> "cancel", id |-> id])
                 /\ sentLog' = sentLog \cup
                        {Write("cancelOrder", id, CancelPayload(page), dialog)}
                 /\ started' = started + 1
                 /\ Notify("cancelSent", id, NoToast)
            ELSE /\ UNCHANGED <<requests, sentLog, started>>
                 /\ Notify("cancelDeclined", id, NoToast)
    /\ UNCHANGED <<ordersVars, page, orders, gridVars, processingOrder, timers,
                   nonOrdersVars>>

\* whether cancelOrder goes on to toast.success and the reload: the unified
\* page returns on `error`, the pending payments page does not read it
cancelSucceeds(p, outcome) ==
    \/ outcome = "ok"
    \/ (outcome = "rejected" /\ p = "PendingPaymentsPage")

\* the backend answers the update of cancelOrder: it applies it, or answers
\* with an error, or the await throws
CancelResponse ==
    /\ page \in CancelPages
    /\ \E i \in 1..Len(requests), outcome \in {"ok", "rejected", "threw"} :
        LET id == requests[i].id IN
        /\ requests[i].op = "cancel"
        /\ requests' = RemoveAt(requests, i)
        /\ db' = IF outcome = "ok" THEN Apply(db, id, CancelPayload(page)) ELSE db
        /\ IF cancelSucceeds(page, outcome)
           THEN /\ LoadOrdersStart
                /\ toast' = ToastSuccess("Pedido cancelado")
           ELSE /\ UNCHANGED <<loading, error, inflight>>
                /\ toast' = ToastError("Error al cancelar el pedido")
        /\ lastEvent' = Ev(IF outcome = "ok" THEN "cancelOk"
                           ELSE IF outcome = "rejected" THEN "cancelRejected"
                           ELSE "cancelThrew", id)
    /\ UNCHANGED <<user, completedOrders, pendingOrders, mounted, loaded, page,
                   orders, gridVars, processingOrder, timers, sentLog, started,
                   nonOrdersVars>>

\* the button "Completar Pago" of a pending order, disabled while the marker
\* names the order; retryPayment up to its first await
PressCompletarPago ==
    /\ ListShown
    /\ started < MaxOps
    /\ \E j \in 1..Len(pendingOrders) :
        LET id == pendingOrders[j].id IN
        /\ processingOrder # id
        /\ processingOrder' = id
        /\ requests' = Append(requests, [op |-> "create-payment", id |-> id])
        /\ sentLog' = sentLog \cup {Invoke(id)}
        /\ Notify("retryStarted", id, NoToast)
    /\ started' = started + 1
    /\ UNCHANGED <<ordersVars, page, orders, gridVars, timers, nonOrdersVars>>

\* how create-payment can answer: without error and with an init_point,
\* without error and without one, with an error, or the await throws
PaymentOutcomes == {"init_point", "no_init_point", "error", "threw"}

goesOn_WithoutInitPoint(outcome) == outcome \in {"init_point", "no_init_point"}

\* if (paymentError || !payment?.init_point) throw ...: whether retryPayment
\* goes on to its update
goesOn(outcome) == outcome = "init_point"

\* create-payment answers; retryPayment sends its update or runs its catch
\* and finally blocks
PaymentResponse ==
    /\ page \in CancelPages
    /\ \E i \in 1..Len(requests), outcome \in PaymentOutcomes :
        LET id == requests[i].id IN
        /\ requests[i].op = "create-payment"
        /\ IF goesOn(outcome)
           THEN /\ requests' = [requests EXCEPT ![i] = [op |-> "update", id |-> id]]
                /\ sentLog' = sentLog \cup
                       {Write("retryPayment", id, RetryPayload(page), "none")}
                /\ lastEvent' = EvOf("updateSent", id, outcome)
                /\ toast' = NoToast
                /\ UNCHANGED processingOrder
           ELSE /\ requests' = RemoveAt(requests, i)
                /\ processingOrder' = NoOrder
                /\ lastEvent' = EvOf("retryFailed", id, outcome)
                /\ toast' = ToastError(RetryErrorText(page))
                /\ UNCHANGED sentLog
    /\ UNCHANGED <<ordersVars, page, orders, gridVars, timers, started,
                   nonOrdersVars>>

\* the backend answers the update of retryPayment; its result is not read, so
\* unless the await throws the gateway is opened
UpdateResponse ==
    /\ page \in CancelPages
    /\ \E i \in 1..Len(requests), outcome \in {"ok", "rejected", "threw"} :
        LET id == requests[i].id IN
        /\ requests[i].op = "update"
        /\ requests' = RemoveAt(requests, i)
        /\ db' = IF outcome = "ok" THEN Apply(db, id, RetryPayload(page)) ELSE db
        /\ IF outcome = "threw"
           THEN /\ Notify("retryFailed", id, ToastError(RetryErrorText(page)))
                /\ UNCHANGED timers
           ELSE /\ Notify("gatewayOpened", id, ToastSuccess("Redirigiendo a MercadoPago..."))
                /\ timers' = IF page = "UnifiedOrdersPage" THEN timers + 1 ELSE timers
    /\ processingOrder' = NoOrder
    /\ UNCHANGED <<user, completedOrders, pendingOrders, loading, error, inflight,
                   mounted, loaded, page, orders, gridVars, sentLog, started,
                   nonOrdersVars>>

\* setTimeout(loadOrders, 2000) fires
TimerFires ==
    /\ page = "UnifiedOrdersPage"
    /\ timers > 0
    /\ timers' = timers - 1
    /\ LoadOrdersStart
    /\ Notify("loadStarted", NoOrder, NoToast)
    /\ UNCHANGED <<user, db, completedOrders, pendingOrders, mounted, loaded,
                   page, orders, gridVars, processingOrder, requests, sentLog,
                   started, nonOrdersVars>>

\* ------------------------------------------- countdown: getTimeRemaining
MsPerMinute == 1000 * 60
MsPerHour == 1000 * 60 * 60
ExpiryWindowMs == 48 * 60 * 60 * 1000

NotRendered == [text |-> "-", hours |-> 0, minutes |-> 0]

\* `${hours}h ${minutes}m restantes`
Restantes(hours, minutes) == [text |-> "h m restantes", hours |-> hours, minutes |-> minutes]

Expirado == [text |-> "Expirado", hours |-> 0, minutes |-> 0]

getTimeRemaining_Strict(created, nowMs) ==
    LET diffMs == ExpiryWindowMs - (nowMs - created)
    IN IF diffMs < 0 THEN Expirado
       ELSE Restantes(diffMs \div MsPerHour, (diffMs % MsPerHour) \div MsPerMinute)

getTimeRemaining_Elapsed(created, nowMs) ==
    LET diffMs == nowMs - created
    IN IF diffMs >= ExpiryWindowMs THEN Expirado
       ELSE Restantes(diffMs \div MsPerHour, (diffMs % MsPerHour) \div MsPerMinute)

getTimeRemaining(created, nowMs) ==
    LET diffMs == ExpiryWindowMs - (nowMs - created)
    IN IF diffMs <= 0 THEN Expirado
       ELSE Restantes(diffMs \div MsPerHour, (diffMs % MsPerHour) \div MsPerMinute)

\* the instants at which the countdown is rendered, as ms elapsed since creation
ElapsedSamples ==
    { h * MsPerHour + m * MsPerMinute + ms :
          h \in 0..MaxHours, m \in {0, 1, 58, 59}, ms \in {0, 1, 59999} }
    \cup { -MsPerMinute }

\* the page renders the countdown of the order
RenderCountdown ==
    /\ timeText' = getTimeRemaining(createdAt, now)
    /\ UNCHANGED <<createdAt, now, nonTimeVars>>

\* ------------------------------- shipping estimate: strings and numbers
\* a string is the sequence of its characters; the literal text
\* "shipping_days:" of the tag is kept as one symbol
Digits == {"0", "1", "2", "3", "4", "5", "6", "7", "8", "9"}

DigitVal(c) ==
    CASE c = "0" -> 0 [] c = "1" -> 1 [] c = "2" -> 2 [] c = "3" -> 3 [] c = "4" -> 4
      [] c = "5" -> 5 [] c = "6" -> 6 [] c = "7" -> 7 [] c = "8" -> 8 [] c = "9" -> 9

DigitChar(d) == <<"0", "1", "2", "3", "4", "5", "6", "7", "8", "9">>[d + 1]

\* a JavaScript number: NaN or an integer
NaN == [nan |-> TRUE, val |-> 0]
Num(n) == [nan |-> FALSE, val |-> n]

\* the length of the longest prefix of s made of digits
RECURSIVE DigitPrefixLen(_)
DigitPrefixLen(s) ==
    IF s = <<>> \/ Head(s) \notin Digits THEN 0 ELSE 1 + DigitPrefixLen(Tail(s))

RECURSIVE DigitsValue(_)
DigitsValue(s) ==
    IF s = <<>> THEN 0 ELSE DigitsValue(SubSeq(s, 1, Len(s) - 1)) * 10 + DigitVal(s[Len(s)])

\* parseInt(s, 10) of a string without sign or leading blanks
parseInt(s) ==
    LET n == DigitPrefixLen(s)
    IN IF n = 0 THEN NaN ELSE Num(DigitsValue(SubSeq(s, 1, n)))

\* a || b on numbers: NaN and 0 are falsy
OrElse(a, b) == IF a.nan \/ a.val = 0 THEN b ELSE a

\* Math.max of two numbers
MathMax(a, b) == IF a.nan \/ b.nan THEN NaN ELSE IF a.val >= b.val THEN a ELSE b

\* String(n) of a number
RECURSIVE NatChars(_)
NatChars(n) == IF n < 10 THEN <<DigitChar(n)>> ELSE NatChars(n \div 10) \o <<DigitChar(n % 10)>>

NumChars(a) ==
    IF a.nan THEN <<"NaN">>
    ELSE IF a.val < 0 THEN <<"-">> \o NatChars(-a.val) ELSE NatChars(a.val)

\* s.includes('-')
IncludesDash(s) == \E i \in 1..Len(s) : s[i] = "-"

\* s.split('-'), for a string that includes '-': the first two parts
SplitPart0(s) ==
    LET i == Min({ k \in 1..Len(s) : s[k] = "-" }) IN SubSeq(s, 1, i - 1)

SplitPart1(s) ==
    LET i == Min({ k \in 1..Len(s) : s[k] = "-" })
        rest == SubSeq(s, i + 1, Len(s))
        D == { k \in 1..Len(rest) : rest[k] = "-" }
    IN IF D = {} THEN rest ELSE SubSeq(rest, 1, Min(D) - 1)

\* description.match(/\[shipping_days:(\d+)\]/): the digits of the first tag,
\* <<>> when nothing matches
TagDigits(description) ==
    LET Starts == { i \in 1..Len(description) :
                      /\ i + 3 <= Len(description)
                      /\ description[i] = "["
                      /\ description[i + 1] = "shipping_days:"
                      /\ LET n == DigitPrefixLen(SubSeq(description, i + 2, Len(description)))
                         IN /\ n >= 1
                            /\ i + 2 + n <= Len(description)
                            /\ description[i + 2 + n] = "]" }
    IN IF Starts = {} THEN <<>>
       ELSE LET i == Min(Starts)
            IN SubSeq(description, i + 2,
                      i + 1 + DigitPrefixLen(SubSeq(description, i + 2, Len(description))))

\* --------------------------------------- shipping estimate (MyOrdersPage)
DefaultDays == <<"3", "-", "5">>

getShippingDays_FieldOnly(product) ==
    IF product.shipping_days # <<>> THEN product.shipping_days ELSE DefaultDays

\* shipping_days and description: <<>> stands for null, undefined and ''
getShippingDays(product) ==
    IF product.shipping_days # <<>> THEN product.shipping_days
    ELSE IF product.description # <<>> /\ TagDigits(product.description) # <<>>
         THEN TagDigits(product.description)
    ELSE DefaultDays

\* the number the code takes as the upper bound of one item's value
UpperOfDays(days) ==
    IF IncludesDash(days)
    THEN OrElse(parseInt(SplitPart1(days)), parseInt(SplitPart0(days)))
    ELSE OrElse(parseInt(days), Num(5))

RECURSIVE MaxOfDays(_)
MaxOfDays(daysArray) ==
    IF Len(daysArray) = 1 THEN UpperOfDays(daysArray[1])
    ELSE MathMax(UpperOfDays(Head(daysArray)), MaxOfDays(Tail(daysArray)))

getOrderEstimatedDays_MinUpper(items_) ==
    IF items_ = <<>> THEN DefaultDays
    ELSE LET shippingDaysArray == [i \in 1..Len(items_) |-> getShippingDays(items_[i])]
             uniqueDays == { shippingDaysArray[i] : i \in 1..Len(items_) }
         IN IF Cardinality(uniqueDays) = 1 THEN shippingDaysArray[1]
            ELSE LET u == UpperOfDays(shippingDaysArray[1])
                 IN NumChars(MathMax(Num(3), Num(u.val - 2))) \o <<"-">> \o NumChars(u)

getOrderEstimatedDays(items_) ==
    IF items_ = <<>> THEN DefaultDays
    ELSE LET shippingDaysArray == [i \in 1..Len(items_) |-> getShippingDays(items_[i])]
             maxDays == MaxOfDays(shippingDaysArray)
             uniqueDays == { shippingDaysArray[i] : i \in 1..Len(items_) }
         IN IF Cardinality(uniqueDays) = 1 THEN shippingDaysArray[1]
            ELSE NumChars(MathMax(Num(3), IF maxDays.nan THEN NaN ELSE Num(maxDays.val - 2)))
                 \o <<"-">> \o NumChars(maxDays)

NotComputed == <<"?">>

\* the values of products.shipping_days the backend returns
ShippingDaysValues ==
    { <<>>, <<"1">>, <<"2">>, <<"7">>, <<"3", "-", "5">>,
      <<"1", "0", "-", "1", "5">> }

\* the values of products.description the backend returns
DescriptionValues ==
    { <<>>,
      <<"x">>,
      <<"[", "shipping_days:", "7", "]">>,
      <<"x", "[", "shipping_days:", "1", "0", "]", "x">>,
      <<"[", "shipping_days:", "]", "x">>,
      <<"[", "shipping_days:", "1", "x", "]", "[", "shipping_days:", "9", "]">> }

\* the order has one more item
AddOrderItem ==
    /\ estimatedDays = NotComputed
    /\ Len(orderItems) < MaxItems
    /\ \E sd \in ShippingDaysValues, desc \in DescriptionValues :
           orderItems' = Append(orderItems, [shipping_days |-> sd, description |-> desc])
    /\ UNCHANGED <<estimatedDays, nonShipVars>>

\* the page renders the order's estimate
RenderEstimate ==
    /\ estimatedDays' = getOrderEstimatedDays(orderItems)
    /\ UNCHANGED <<orderItems, nonShipVars>>

\* ---------------------------------------------------------- specifications
CartInit ==
    /\ catalog \in Catalogs
    /\ items = <<>>
    /\ total = 0
    /\ isOpen = FALSE
    /\ prevItems = <<>>
    /\ lastOp = NoOp

OrdersInit ==
    /\ user \in {NoUser, "u1"}
    /\ db = <<>>
    /\ completedOrders = <<>>
    /\ pendingOrders = <<>>
    /\ loading = TRUE
    /\ error = NoError
    /\ inflight = 0
    /\ mounted = FALSE
    /\ loaded = <<>>

\* no page activity yet: page p is about to be mounted
PagesIdle(p) ==
    /\ page = p
    /\ orders = <<>>
    /\ products = <<>>
    /\ searchInput = <<>>
    /\ searchTerm = <<>>
    /\ selectedCategory = ""
    /\ sortBy = "newest"
    /\ categories = {}
    /\ gridLoads = <<>>
    /\ processingOrder = NoOrder
    /\ requests = <<>>
    /\ timers = 0
    /\ started = 0
    /\ toast = NoToast
    /\ lastEvent = NoEvent
    /\ sentLog = {}

\* the cart alone: the orders page is not mounted and has no rows
InitCart ==
    /\ PagesIdle("UnifiedOrdersPage")
    /\ CartInit
    /\ user = NoUser
    /\ db = <<>>
    /\ completedOrders = <<>>
    /\ pendingOrders = <<>>
    /\ loading = TRUE
    /\ error = NoError
    /\ inflight = 0
    /\ mounted = FALSE
    /\ loaded = <<>>
    /\ createdAt = 0
    /\ now = 0
    /\ timeText = NotRendered
    /\ orderItems = <<>>
    /\ estimatedDays = NotComputed

\* the orders page alone: the cart stays empty
InitOrders ==
    /\ PagesIdle("UnifiedOrdersPage")
    /\ OrdersInit
    /\ catalog = CHOOSE c \in Catalogs : TRUE
    /\ items = <<>>
    /\ total = 0
    /\ isOpen = FALSE
    /\ prevItems = <<>>
    /\ lastOp = NoOp
    /\ createdAt = 0
    /\ now = 0
    /\ timeText = NotRendered
    /\ orderItems = <<>>
    /\ estimatedDays = NotComputed

\* the countdown alone: the cart is empty and the orders page is not mounted
InitTime ==
    /\ PagesIdle("UnifiedOrdersPage")
    /\ createdAt \in {0, 500}
    /\ \E e \in ElapsedSamples : now = createdAt + e
    /\ timeText = NotRendered
    /\ orderItems = <<>>
    /\ estimatedDays = NotComputed
    /\ catalog = CHOOSE c \in Catalogs : TRUE
    /\ items = <<>>
    /\ total = 0
    /\ isOpen = FALSE
    /\ prevItems = <<>>
    /\ lastOp = NoOp
    /\ user = NoUser
    /\ db = <<>>
    /\ completedOrders = <<>>
    /\ pendingOrders = <<>>
    /\ loading = TRUE
    /\ error = NoError
    /\ inflight = 0
    /\ mounted = FALSE
    /\ loaded = <<>>

\* the shipping estimate alone
InitShip ==
    /\ PagesIdle("UnifiedOrdersPage")
    /\ orderItems = <<>>
    /\ estimatedDays = NotComputed
    /\ createdAt = 0
    /\ now = 0
    /\ timeText = NotRendered
    /\ catalog = CHOOSE c \in Catalogs : TRUE
    /\ items = <<>>
    /\ total = 0
    /\ isOpen = FALSE
    /\ prevItems = <<>>
    /\ lastOp = NoOp
    /\ user = NoUser
    /\ db = <<>>
    /\ completedOrders = <<>>
    /\ pendingOrders = <<>>
    /\ loading = TRUE
    /\ error = NoError
    /\ inflight = 0
    /\ mounted = FALSE
    /\ loaded = <<>>

NextCart ==
    \/ AddItem
    \/ HandleAddToCart
    \/ UpdateQuantity
    \/ RemoveItem
    \/ PressMinus
    \/ PressPlus
    \/ PressEliminar
    \/ ToggleCart

NextOrders ==
    \/ CreateOrder
    \/ Mount
    \/ PressRetry
    \/ LoadOk
    \/ LoadNull
    \/ LoadFetchError
    \/ LoadThrow

\* the rows the checkout flow leaves for the pages: payment not yet made,
\* not yet cancelled
FreshRows == [payment_status : {"pending"},
              payment_method : PaymentMethods,
              status : {"pending"}]

CreateFreshOrder == CreateOrderOf(FreshRows)

\* one of the four pages is mounted; the cart stays empty
InitPages ==
    /\ OrdersInit
    /\ \E p \in Pages : PagesIdle(p)
    /\ catalog = CHOOSE c \in Catalogs : TRUE
    /\ items = <<>>
    /\ total = 0
    /\ isOpen = FALSE
    /\ prevItems = <<>>
    /\ lastOp = NoOp
    /\ createdAt = 0
    /\ now = 0
    /\ timeText = NotRendered
    /\ orderItems = <<>>
    /\ estimatedDays = NotComputed

NextPages ==
    \/ CreateFreshOrder
    \/ Mount
    \/ PressRetry
    \/ LoadOk
    \/ LoadNull
    \/ LoadFetchError
    \/ LoadThrow
    \/ LoadPendingOk
    \/ LoadPendingFail
    \/ PressRefresh
    \/ LoadMyOrdersOk
    \/ LoadMyOrdersFail
    \/ MountGrid
    \/ TypeSearch
    \/ DebounceFires
    \/ SelectCategory
    \/ SelectSort
    \/ PressReintentar
    \/ LoadProductsOk
    \/ LoadProductsFail
    \/ PressCancelar
    \/ CancelResponse
    \/ PressCompletarPago
    \/ PaymentResponse
    \/ UpdateResponse
    \/ TimerFires

SpecPages == InitPages /\ [][NextPages]_vars

\* the backend's answer to a load of an order page
LoadAnswers ==
    \/ LoadOk
    \/ LoadNull
    \/ LoadFetchError
    \/ LoadThrow
    \/ LoadPendingOk
    \/ LoadPendingFail
    \/ LoadMyOrdersOk
    \/ LoadMyOrdersFail

\* the pages with a backend that answers every load: each await of a load
\* query resolves or rejects
SpecPagesFair == SpecPages /\ WF_vars(LoadAnswers)

NextTime == RenderCountdown

NextShip ==
    \/ AddOrderItem
    \/ RenderEstimate

SpecShip == InitShip /\ [][NextShip]_vars

SpecTime == InitTime /\ [][NextTime]_vars

SpecCart == InitCart /\ [][NextCart]_vars

SpecOrders == InitOrders /\ [][NextOrders]_vars

Init == InitCart

Next == NextCart

Spec == SpecCart

\* ================================================================= claims
Lines(its) == 1..Len(its)

IsAdd == lastOp.op \in {"addItem", "handleAddToCart"}

\* the lines of `its` with key (id, color)
KeyLines(its, id, color) ==
    { j \in Lines(its) : its[j].product.id = id /\ its[j].selectedColor = color }

\* the lines of `its` of product id
ProductLines(its, id) == { j \in Lines(its) : its[j].product.id = id }

InBucket(bucket, order) == \E j \in 1..Len(bucket) : bucket[j].id = order.id

\* C1: an order is in the payment-pending bucket of the unified orders page
\* if and only if payment_status is 'pending' and payment_method is
\* 'mercadopago'.
C1_PendingIffMercadoPagoPending ==
    \A i \in 1..Len(loaded) :
        InBucket(pendingOrders, loaded[i])
            <=> (loaded[i].payment_status = "pending"
                 /\ loaded[i].payment_method = "mercadopago")

\* C2: classification is a partition: every loaded order is in exactly one of
\* the completed and pending buckets, the buckets hold loaded orders only, and
\* their sizes sum to the number of loaded orders.
C2_Partition ==
    /\ \A i \in 1..Len(loaded) :
           InBucket(completedOrders, loaded[i]) <=> ~InBucket(pendingOrders, loaded[i])
    /\ \A j \in 1..Len(completedOrders) : InBucket(loaded, completedOrders[j])
    /\ \A j \in 1..Len(pendingOrders) : InBucket(loaded, pendingOrders[j])
    /\ Len(completedOrders) + Len(pendingOrders) = Len(loaded)

C2_Witness ==
    /\ Len(loaded) = 2
    /\ Len(completedOrders) = 1
    /\ Len(pendingOrders) = 1
    /\ pendingOrders[1].payment_status = "payment_pending"

\* C3: every order with payment_method cash_on_delivery and payment_status
\* pending is in the completed bucket and not in the pending bucket, whatever
\* its lifecycle status.
C3_CashOnDeliveryPendingIsCompleted ==
    \A i \in 1..Len(loaded) :
        (loaded[i].payment_method = "cash_on_delivery"
         /\ loaded[i].payment_status = "pending")
            => /\ InBucket(completedOrders, loaded[i])
               /\ ~InBucket(pendingOrders, loaded[i])

C3_Witness ==
    /\ Len(loaded) = 2
    /\ \A i \in 1..2 : /\ loaded[i].payment_method = "cash_on_delivery"
                       /\ loaded[i].payment_status = "pending"
    /\ loaded[1].status = "cancelled"
    /\ loaded[2].status = "shipped"
    /\ Len(completedOrders) = 2

\* C4: addItem(product, q, color) on a cart that holds a line with the same
\* (product id, selectedColor) adds no line: that line's quantity grows by q,
\* every other line is unchanged and the key still has exactly one line.
C4_AddItemMerges ==
    (IsAdd /\ KeyLines(prevItems, lastOp.id, lastOp.color) # {})
        => /\ Len(items) = Len(prevItems)
           /\ Cardinality(KeyLines(items, lastOp.id, lastOp.color)) = 1
           /\ \A j \in Lines(prevItems) :
                  IF j \in KeyLines(prevItems, lastOp.id, lastOp.color)
                  THEN /\ items[j].product = prevItems[j].product
                       /\ items[j].selectedColor = prevItems[j].selectedColor
                       /\ items[j].quantity = prevItems[j].quantity + lastOp.n
                  ELSE items[j] = prevItems[j]

\* two additions of the same product from the grid: one line, quantity 1 + 1
C4_Witness ==
    /\ lastOp.op = "handleAddToCart"
    /\ Len(prevItems) = 1
    /\ prevItems[1].quantity = 1
    /\ prevItems[1].product.id = lastOp.id
    /\ prevItems[1].selectedColor = NoColor
    /\ Len(items) = 1
    /\ items[1].quantity = 2

\* C5: addItem for a product already in the cart, with a selectedColor no line
\* of it has, appends a new line with its own key and leaves every existing
\* line (its quantity included) unchanged.
C5_AddItemOtherColorAppends ==
    (/\ IsAdd
     /\ ProductLines(prevItems, lastOp.id) # {}
     /\ KeyLines(prevItems, lastOp.id, lastOp.color) = {})
        => /\ Len(items) = Len(prevItems) + 1
           /\ \A j \in Lines(prevItems) : items[j] = prevItems[j]
           /\ items[Len(items)].product.id = lastOp.id
           /\ items[Len(items)].selectedColor = lastOp.color
           /\ items[Len(items)].quantity = lastOp.n
           /\ \A j \in Lines(prevItems) : LineKey(items[j]) # LineKey(items[Len(items)])

C5_Witness ==
    /\ lastOp.op = "addItem"
    /\ lastOp.color = "blue"
    /\ Len(prevItems) = 1
    /\ Len(items) = 2
    /\ items[1].product.id = items[2].product.id
    /\ items[1].selectedColor = "red"
    /\ items[1].quantity = 2
    /\ items[2].selectedColor = "blue"

\* C6: updateQuantity(productId, n) with n <= 0 removes the matching line; in
\* particular the minus button on a line whose quantity is 1 removes that
\* line: afterwards the cart is the cart before without the pressed line.
C6_MinusOnQuantityOneRemovesThatLine ==
    /\ (lastOp.op \in {"updateQuantity", "minus"} /\ lastOp.n <= 0
        /\ ProductLines(prevItems, lastOp.id) # {})
           => Len(items) = Len(prevItems) - 1
    /\ (lastOp.op = "minus" /\ prevItems[lastOp.line].quantity = 1)
           => items = RemoveAt(prevItems, lastOp.line)

\* the sum over the lines of unit price * quantity, as the claim states it
RECURSIVE C7_SumOfUnitPrices(_)
C7_SumOfUnitPrices(its) ==
    IF its = <<>> THEN 0
    ELSE (IF Head(its).product.promotion.type = "discount"
          THEN Head(its).product.promotion.total_price
          ELSE Head(its).product.price) * Head(its).quantity
         + C7_SumOfUnitPrices(Tail(its))

\* the sum of the amounts the cart panel shows
RECURSIVE C7_SumOfShownAmounts(_)
C7_SumOfShownAmounts(its) ==
    IF its = <<>> THEN 0
    ELSE LineAmount(Head(its)) + C7_SumOfShownAmounts(Tail(its))

\* C7: total is the sum over the lines of unitPrice * quantity, unitPrice being
\* the promotion's total_price for a discount promotion and the base price
\* otherwise (2x1, 3x1, 3x2 included); it equals the sum of the amounts the
\* panel shows per line; one line of price 100, discount 70, quantity 2: 140.
C7_TotalIsSumOfLines ==
    /\ total = C7_SumOfUnitPrices(items)
    /\ total = C7_SumOfShownAmounts(items)
    /\ (/\ Len(items) = 1
        /\ items[1].product.price = 100
        /\ items[1].product.promotion = [type |-> "discount", total_price |-> 70]
        /\ items[1].quantity = 2) => total = 140
    /\ \A j \in Lines(items) :
           (Len(items) = 1 /\ items[j].product.promotion.type \in {"2x1", "3x1", "3x2"})
               => total = items[j].product.price * items[j].quantity

C7_Witness ==
    /\ Len(items) = 2
    /\ items[1].product.promotion.type = "discount"
    /\ items[1].quantity = 2
    /\ items[2].product.promotion.type = "3x2"
    /\ total = 140 + 50

\* C8: removeItem(productId) deletes every line of the product (all colour
\* variants) and leaves the lines of other products unchanged and in order;
\* 'Eliminar' on one colour variant removes all variants of the product.
C8_RemoveItemRemovesAllVariants ==
    lastOp.op \in {"removeItem", "eliminar"}
        => /\ ProductLines(items, lastOp.id) = {}
           /\ Len(items) = Len(prevItems) - Cardinality(ProductLines(prevItems, lastOp.id))
           /\ \A j \in Lines(prevItems) :
                  prevItems[j].product.id # lastOp.id
                      => items[j - Cardinality({k \in ProductLines(prevItems, lastOp.id) : k < j})]
                             = prevItems[j]

C8_Witness ==
    /\ lastOp.op = "eliminar"
    /\ lastOp.line = 3
    /\ Len(prevItems) = 3
    /\ prevItems[1].product.id = lastOp.id
    /\ prevItems[2].product.id # lastOp.id
    /\ prevItems[3].product.id = lastOp.id
    /\ items = <<prevItems[2]>>

\* C9: updateQuantity(productId, n) with n > 0 sets the quantity of the first
\* line of the product (whatever its colour) and leaves every other line
\* unchanged; plus or minus on a later colour variant changes the first one.
C9_UpdateQuantitySetsFirstMatch ==
    (lastOp.op \in {"updateQuantity", "plus", "minus"} /\ lastOp.n > 0)
        => /\ Len(items) = Len(prevItems)
           /\ \A j \in Lines(prevItems) :
                  IF /\ prevItems[j].product.id = lastOp.id
                     /\ \A k \in 1..(j - 1) : prevItems[k].product.id # lastOp.id
                  THEN /\ items[j].product = prevItems[j].product
                       /\ items[j].selectedColor = prevItems[j].selectedColor
                       /\ items[j].quantity = lastOp.n
                  ELSE items[j] = prevItems[j]

C9_Witness ==
    /\ lastOp.op = "plus"
    /\ lastOp.line = 2
    /\ Len(prevItems) = 2
    /\ prevItems[1].product.id = prevItems[2].product.id
    /\ prevItems[1].quantity = 1
    /\ prevItems[2].quantity = 1
    /\ items[1].quantity = 2
    /\ items[2] = prevItems[2]

\* C10: in every state reachable from the empty cart by addItem with a
\* positive quantity, updateQuantity and removeItem, every line has a positive
\* integer quantity.
C10_QuantitiesPositive ==
    \A j \in Lines(items) : items[j].quantity \in Nat \ {0}

C10_Witness ==
    /\ lastOp.op = "minus"
    /\ lastOp.n = 0
    /\ Len(prevItems) = 2
    /\ Len(items) = 1
    /\ C10_QuantitiesPositive

\* C11: in every state reachable from the empty cart by addItem,
\* updateQuantity and removeItem, no two cart lines have the same
\* (product id, selectedColor).
C11_KeysUnique ==
    \A i \in Lines(items) : \A j \in Lines(items) :
        (i # j) => ~(/\ items[i].product.id = items[j].product.id
                     /\ items[i].selectedColor = items[j].selectedColor)

\* two colour variants of one product left after another product was removed
C11_Witness ==
    /\ lastOp.op = "removeItem"
    /\ Len(prevItems) = 3
    /\ Len(items) = 2
    /\ items[1].product.id = items[2].product.id
    /\ items[1].selectedColor # items[2].selectedColor

\* C12: getTimeRemaining uses a fixed 48-hour window from the order's creation
\* time: at exactly 48 hours after creation or any later instant it returns
\* the expired marker, before that it does not, and it never reports a
\* negative remaining time.
C12_ExpiredFrom48Hours ==
    (timeText # NotRendered)
        => /\ (now - createdAt >= 48 * 3600000) <=> (timeText = Expirado)
           /\ timeText.hours >= 0
           /\ timeText.minutes >= 0
           /\ timeText.minutes <= 59

C12_Witness ==
    /\ timeText = Expirado
    /\ now - createdAt = 48 * 3600000

\* C13 as stated: evaluated 47 hours 59 minutes after creation, getTimeRemaining
\* returns 0 hours and 59 minutes remaining.
C13_At47h59m_59MinutesLeft ==
    (timeText # NotRendered /\ now - createdAt = 47 * 3600000 + 59 * 60000)
        => timeText = Restantes(0, 59)

\* C13 as amended: evaluated 47 hours 59 minutes after creation,
\* getTimeRemaining returns 0 hours and 1 minute remaining.
C13_At47h59m_1MinuteLeft ==
    (timeText # NotRendered /\ now - createdAt = 47 * 3600000 + 59 * 60000)
        => timeText = Restantes(0, 1)

C13_Witness ==
    /\ timeText # NotRendered
    /\ createdAt = 500
    /\ now - createdAt = 47 * 3600000 + 59 * 60000

\* the digits of the first [shipping_days:N] tag of each description the
\* backend returns, written out by hand; <<>> where there is no tag
C14_TagOf(description) ==
    CASE description = <<"[", "shipping_days:", "7", "]">> -> <<"7">>
      [] description = <<"x", "[", "shipping_days:", "1", "0", "]", "x">> -> <<"1", "0">>
      [] description = <<"[", "shipping_days:", "1", "x", "]", "[", "shipping_days:", "9", "]">>
             -> <<"9">>
      [] OTHER -> <<>>

\* an item's value as the claim resolves it
C14_Resolved(product) ==
    IF product.shipping_days # <<>> THEN product.shipping_days
    ELSE IF C14_TagOf(product.description) # <<>> THEN C14_TagOf(product.description)
    ELSE <<"3", "-", "5">>

C14_ResolvedValues == { C14_Resolved(orderItems[i]) : i \in 1..Len(orderItems) }

\* C14: each item's value is its shipping_days field, else the digits of a
\* [shipping_days:N] tag in its description, else "3-5"; when every item of the
\* order resolves to the same string getOrderEstimatedDays returns exactly that
\* string, and for an order with no items it returns "3-5".
C14_SameValueReturned ==
    (estimatedDays # NotComputed)
        => /\ (orderItems = <<>>) => (estimatedDays = <<"3", "-", "5">>)
           /\ \A v \in C14_ResolvedValues :
                  (C14_ResolvedValues = {v}) => (estimatedDays = v)

\* one item with the field, one with the tag only, both 7
C14_Witness ==
    /\ estimatedDays = <<"7">>
    /\ Len(orderItems) = 2
    /\ orderItems[1].shipping_days = <<"7">>
    /\ orderItems[2].shipping_days = <<>>
    /\ orderItems[2].description = <<"[", "shipping_days:", "7", "]">>

\* the upper bound of a value: the number after the dash of 'min-max', or the
\* single number
C15_UpperOf(days) ==
    IF \E i \in 1..Len(days) : days[i] = "-"
    THEN LET i == CHOOSE k \in 1..Len(days) : days[k] = "-"
         IN DigitsValue(SubSeq(days, i + 1, Len(days)))
    ELSE DigitsValue(days)

C15_MaxUpper ==
    CHOOSE u \in { C15_UpperOf(v) : v \in C14_ResolvedValues } :
        \A v \in C14_ResolvedValues : C15_UpperOf(v) <= u

C16_MessageOf(p) ==
    CASE p = "PendingPaymentsPage" -> "Error al cargar los pedidos pendientes"
      [] p = "ProductGrid" -> "Error al cargar los productos"
      [] OTHER -> "Error al cargar los pedidos"

\* this step is the failure of a load of the mounted page
C16_LoadFailedStep ==
    /\ lastEvent'.ev = "loadFailed"
    /\ \/ inflight' = inflight - 1
       \/ Len(gridLoads') = Len(gridLoads) - 1

\* C16: when a load from the backend fails (orders on any of the three order
\* pages, products on the product grid) the failure is caught: the step sets
\* the page's generic error message, ends loading, and leaves the lists shown
\* (orders, completed and pending buckets, products) exactly as they were.
C16_FailedLoadKeepsLists ==
    [][C16_LoadFailedStep
         => /\ error' = C16_MessageOf(page)
            /\ loading' = FALSE
            /\ completedOrders' = completedOrders
            /\ pendingOrders' = pendingOrders
            /\ orders' = orders
            /\ products' = products]_vars

\* a reload of the unified page failed while its buckets held orders
C16_Witness ==
    /\ page = "UnifiedOrdersPage"
    /\ lastEvent.ev = "loadFailed"
    /\ error = "Error al cargar los pedidos"
    /\ completedOrders # <<>>
    /\ pendingOrders # <<>>

\* C17: when the backend rejects or fails the update issued by cancelOrder the
\* user is shown the failure notification and not the 'Pedido cancelado'
\* success notification, on the pending payments page and on the unified page.
C17_FailedCancelShowsFailure ==
    (lastEvent.ev \in {"cancelRejected", "cancelThrew"})
        => /\ toast.level = "error"
           /\ toast # [level |-> "success", text |-> "Pedido cancelado"]

C18_SetsCancelled(e) ==
    /\ e.kind = "update"
    /\ "status" \in DOMAIN e.set
    /\ e.set.status = "cancelled"

\* C18: no update that sets an order's status to 'cancelled' is sent unless
\* the user accepted the confirmation dialog for that order in the same click;
\* declining the dialog sends nothing and changes no state of the page or of
\* the backend.
C18_CancelOnlyAfterConfirm ==
    [][/\ \A e \in sentLog' : C18_SetsCancelled(e) => e.dialog = "accepted"
       /\ (lastEvent'.ev = "cancelDeclined")
              => UNCHANGED <<ordersVars, orders, products, processingOrder,
                             requests, timers, sentLog>>]_vars

\* one cancellation was accepted and sent, the next dialog was declined
C18_Witness ==
    /\ lastEvent.ev = "cancelDeclined"
    /\ \E e \in sentLog : C18_SetsCancelled(e) /\ e.dialog = "accepted"

\* C19: cancellation is terminal: no update and no create-payment call is
\* sent for an order whose status is already 'cancelled'.
C19_NothingSentForCancelledOrder ==
    \A e \in sentLog : ~e.cancelled

\* C20 as stated: the only write the client makes to an order is setting its
\* status to 'cancelled', and no other field is written.
C20_OnlyStatusCancelledWritten ==
    \A e \in sentLog :
        (e.kind = "update") => (e.set = [status |-> "cancelled"])

\* C20: the client writes an order only in cancelOrder and in retryPayment:
\* cancelOrder sets status to 'cancelled' (on the pending payments page also
\* payment_status to 'failed' and updated_at), retryPayment sets payment_url
\* (on the unified page also payment_status to 'pending'); total and items
\* are never written.
C20_WritesOfCancelAndRetryOnly ==
    \A e \in sentLog :
        (e.kind = "update")
            => /\ DOMAIN e.set \subseteq
                      {"status", "payment_status", "payment_url", "updated_at"}
               /\ \/ /\ e.op = "cancelOrder"
                     /\ e.set.status = "cancelled"
                     /\ IF page = "PendingPaymentsPage"
                        THEN /\ DOMAIN e.set = {"status", "payment_status", "updated_at"}
                             /\ e.set.payment_status = "failed"
                        ELSE DOMAIN e.set = {"status"}
                  \/ /\ e.op = "retryPayment"
                     /\ "payment_url" \in DOMAIN e.set
                     /\ IF page = "PendingPaymentsPage"
                        THEN DOMAIN e.set = {"payment_url"}
                        ELSE /\ DOMAIN e.set = {"payment_url", "payment_status"}
                             /\ e.set.payment_status = "pending"

\* both kinds of write were sent, and the backend applied the retry's
C20_Witness ==
    /\ \E e \in sentLog : e.kind = "update" /\ e.op = "cancelOrder"
    /\ \E e \in sentLog : e.kind = "update" /\ e.op = "retryPayment"
    /\ \E j \in 1..Len(db) : db[j].payment_url = "init_point"

\* the place of an order of a bucket in the loaded rows
C21_PlaceOf(order) == CHOOSE i \in 1..Len(loaded) : loaded[i].id = order.id

C21_InInputOrder(bucket) ==
    \A i, j \in 1..Len(bucket) :
        (i < j) => (C21_PlaceOf(bucket[i]) < C21_PlaceOf(bucket[j]))

\* C21: classification is stable: within the completed bucket and within the
\* pending bucket the orders are in the same relative order as in the rows the
\* backend returned (created_at descending).
C21_BucketsKeepInputOrder ==
    /\ \A j \in 1..Len(completedOrders) : InBucket(loaded, completedOrders[j])
    /\ \A j \in 1..Len(pendingOrders) : InBucket(loaded, pendingOrders[j])
    /\ C21_InInputOrder(completedOrders)
    /\ C21_InInputOrder(pendingOrders)

\* two completed orders were loaded, the newer one first
C21_Witness ==
    /\ Len(loaded) = 2
    /\ Len(completedOrders) = 2
    /\ completedOrders[1].id = 2
    /\ completedOrders[2].id = 1

\* C22: the payment-pending rule is the same on both pages: for the rows the
\* backend holds, the list the pending payments page shows (its query's
\* filter payment_method = mercadopago and payment_status = pending) holds
\* exactly the orders the unified page puts in its pending bucket.
C22_PendingListsAgree ==
    pendingOrders = SelectSeq(loaded, isMercadoPagoPending)

\* C23: after cancelOrder has succeeded for an order (the backend applied the
\* update, so the row's status is 'cancelled') and a reload has completed with
\* the backend's rows, the order is no longer in the pending list of the page.
C23_CancelledOrderLeavesPendingList ==
    (lastEvent.ev = "loadOk")
        => \A j \in 1..Len(pendingOrders) : pendingOrders[j].status # "cancelled"

\* C24: the loading indicator is never stuck: on every order page, once the
\* page is mounted loading eventually becomes false, whether the load
\* succeeds, fails, throws, or is skipped because no user is signed in.
C24_LoadingEventuallyFalse ==
    [](((page \in OrderPages) /\ mounted) => <>(~loading))

C25_Ids(rows) == [i \in 1..Len(rows) |-> rows[i].id]

\* C25: when product loads overlap, once every load in flight has settled
\* (the last of them with rows) the product list shown is the response to the
\* filter selected last (search term, category, sort order), whatever the
\* order in which the responses arrived.
C25_LatestFilterWins ==
    (/\ page = "ProductGrid"
     /\ mounted
     /\ gridLoads = <<>>
     /\ searchTerm = searchInput
     /\ lastEvent.ev = "loadOk")
        => C25_Ids(products)
               = C25_Ids(SelectSeq(productsQuery(CurrentParams), allowsPayment))

\* C26: loading is true whenever at least one load of the mounted component
\* is still awaiting the backend, also when loads overlap.
C26_LoadingWhileLoadInFlight ==
    (inflight > 0 \/ gridLoads # <<>>) => loading

\* C27: while a retryPayment call for an order is in flight (awaiting
\* create-payment or its update) the in-progress marker names that order, so
\* its 'Completar Pago' button is disabled, also when a retry for another
\* order is started or finishes in the meantime.
C27_MarkerNamesOrderInFlight ==
    \A i \in 1..Len(requests) :
        (requests[i].op \in {"create-payment", "update"})
            => processingOrder = requests[i].id

C28_RetryWrite(e) == e.kind = "update" /\ e.op = "retryPayment"

\* this step handles an answer of create-payment
C28_PaymentAnswered ==
    /\ lastEvent'.outcome \in {"init_point", "no_init_point", "error", "threw"}
    /\ requests' # requests

\* C28: retryPayment sends its update (payment_url) and opens the gateway
\* only after create-payment answered without error and with an init_point;
\* on every other answer the step sends no update, opens no gateway window,
\* shows an error notification, and resets the in-progress marker to null.
C28_RetryOnlyWithInitPoint ==
    [][/\ (C28_PaymentAnswered /\ lastEvent'.outcome # "init_point")
              => /\ sentLog' = sentLog
                 /\ Len(requests') = Len(requests) - 1
                 /\ \A i \in 1..Len(requests') :
                        requests'[i].op = "update"
                            => \E j \in 1..Len(requests) : requests[j] = requests'[i]
                 /\ db' = db
                 /\ lastEvent'.ev # "gatewayOpened"
                 /\ toast'.level = "error"
                 /\ processingOrder' = NoOrder
       /\ (\E e \in sentLog' \ sentLog : C28_RetryWrite(e))
              => (C28_PaymentAnswered /\ lastEvent'.outcome = "init_point")
       /\ (lastEvent'.ev = "gatewayOpened")
              => \E e \in sentLog : C28_RetryWrite(e) /\ e.id = lastEvent'.id]_vars

\* create-payment answered without an init_point while no update has been sent
C28_Witness ==
    /\ lastEvent.ev = "retryFailed"
    /\ lastEvent.outcome = "no_init_point"
    /\ toast.level = "error"
    /\ processingOrder = NoOrder
    /\ \A e \in sentLog : ~C28_RetryWrite(e)

\* C29: for an order whose items resolve to differing shipping-days values
\* the range 'lower-upper' returned by getOrderEstimatedDays is well formed:
\* lower <= upper.
C29_RangeWellFormed ==
    (estimatedDays # NotComputed /\ Cardinality(C14_ResolvedValues) > 1)
        => \E k \in 2..(Len(estimatedDays) - 1) :
               /\ estimatedDays[k] = "-"
               /\ DigitsValue(SubSeq(estimatedDays, 1, k - 1))
                      <= DigitsValue(SubSeq(estimatedDays, k + 1, Len(estimatedDays)))

\* this step is a product load whose main query answered with rows while the
\* promotions or the reviews query failed
C30_PartLoadFailed ==
    /\ lastEvent'.ev = "loadOk"
    /\ lastEvent'.outcome \in {"promotions failed", "reviews failed",
                               "promotions and reviews failed"}
    /\ Len(gridLoads') = Len(gridLoads) - 1

\* C30: a failure while loading promotions or reviews does not fail the
\* product load: the products the main query returned (those that allow a
\* payment method) are set as the list, without the promotion or the rating
\* data that failed to load; the step does not set error and ends loading.
C30_PartFailureKeepsProducts ==
    [][C30_PartLoadFailed
         => /\ \E i \in 1..Len(gridLoads) :
                   /\ gridLoads' = RemoveAt(gridLoads, i)
                   /\ C25_Ids(products')
                          = C25_Ids(SelectSeq(productsQuery(gridLoads[i]), allowsPayment))
            /\ \A j \in 1..Len(products') :
                   /\ (lastEvent'.outcome # "reviews failed")
                          => products'[j].promotion = "undefined"
                   /\ (lastEvent'.outcome # "promotions failed")
                          => /\ products'[j].averageRating = "undefined"
                             /\ products'[j].reviewCount = "undefined"
            /\ error' = error
            /\ (error = "null" => error' = "null")
            /\ loading' = FALSE]_vars

\* both queries failed and the two products of the main query are shown
C30_Witness ==
    /\ page = "ProductGrid"
    /\ lastEvent.ev = "loadOk"
    /\ lastEvent.outcome = "promotions and reviews failed"
    /\ Len(products) = 2
    /\ products[1].promotion = "undefined"
    /\ products[1].averageRating = "undefined"
    /\ error = "null"
    /\ ~loading

====
